---- MODULE Spec2Model ----
(***************************************************************************)
(* A model of utils/macos-apply-defaults.py: the merge engine              *)
(* (merge_values), the store codec (read_plist / write_plist), the domain  *)
(* applier (apply_defaults) and the run orchestrator (process_toml_file,   *)
(* process_path, main, kill_processes, cleanup_backups).                   *)
(*                                                                         *)
(* Structured values are tagged records [t, v]: the tag t is one of        *)
(* "str", "int", "bool", "list", "dict"; v is the payload (a string, a     *)
(* number, a boolean, a sequence of values, a function from key strings    *)
(* to values).  Python object identity, which merge_values uses to signal  *)
(* "unchanged", is carried by the field `same` of a merge result: same is  *)
(* TRUE exactly when the code returns the object it was given as old_value.*)
(***************************************************************************)
EXTENDS Integers, Sequences, FiniteSets, TLC

VARIABLES
  m_old, m_new, m_done, m_res,   \* one call of merge_values: arguments, result
  g_args, g_done, g_path,        \* one call of get_plist_path: arguments, result
  units,            \* the parsed TOML documents of the run, in sorted file order
  dry_run,          \* args.dry_run
  run,              \* 1 in the first invocation of the script, 2 in the second
  pc,               \* where the invocation stands
  ui, di, bi,       \* loop positions: unit, domain of the unit, backup to remove
  fs,               \* the files: path -> [exists, fmt, data]
  dirs,             \* the directories that exist
  sandboxed_cache,  \* _sandboxed_cache
  changes_in_file, file_backups,            \* locals of process_toml_file
  all_changes, all_processes, all_backups,  \* locals of process_path
  w,                \* locals of apply_defaults / write_plist
  faults,           \* failures of the environment so far
  flags,            \* history: (unit, domain, changed) of each apply_defaults
  copies,           \* history: the backup copies made in this invocation
  kills, signals,   \* history: killall calls per process name, and for cfprefsd
  writes,           \* history: the store writes made in this invocation
  ret,              \* history: the last return of write_plist
  first,            \* history: how the previous invocation ended
  start,            \* history: the files and directories this invocation found
  removals          \* history: the removals cleanup_backups attempted

mvars == <<m_old, m_new, m_done, m_res, g_args, g_done, g_path>>

rvars == <<units, dry_run, run, pc, ui, di, bi, fs, dirs, sandboxed_cache,
           changes_in_file, file_backups, all_changes, all_processes,
           all_backups, w, faults, flags, copies, writes, kills, signals, ret,
           first, start, removals>>

vars == <<m_old, m_new, m_done, m_res, g_args, g_done, g_path, units, dry_run, run, pc, ui, di, bi, fs,
          dirs, sandboxed_cache, changes_in_file, file_backups, all_changes,
          all_processes, all_backups, w, faults, flags, copies, writes, kills,
          signals, ret, first, start, removals>>

(***************************************************************************)
(* Structured values                                                       *)
(***************************************************************************)
VStr(s) == [t |-> "str", v |-> s]
VInt(n) == [t |-> "int", v |-> n]
VBool(b) == [t |-> "bool", v |-> b]
VList(q) == [t |-> "list", v |-> q]
VDict(f) == [t |-> "dict", v |-> f]

\* The two reserved tokens of merge_values.
CLEAR == "!"
PRESERVE == VStr("...")

EmptyDict == VDict(<<>>)

\* Every mapping key the model uses, in Python's string order (code points).
KeyUniverse == <<"!", "a", "b", "c", "dock", "k">>

KeyRank(k) == CHOOSE i \in 1..Len(KeyUniverse) : KeyUniverse[i] = k

RECURSIVE SortedKeys(_)
\* sorted(keys): the keys of S as a sequence in Python's string order.
SortedKeys(S) ==
  IF S = {} THEN <<>>
  ELSE LET k == CHOOSE x \in S : \A y \in S : KeyRank(x) <= KeyRank(y)
       IN <<k>> \o SortedKeys(S \ {k})

\* bool is a subclass of int in Python: True == 1 and False == 0.
AsNumber(a) == IF a.t = "bool" THEN (IF a.v THEN 1 ELSE 0) ELSE a.v

RECURSIVE PyEq(_, _)
\* Python's == on structured values.
PyEq(a, b) ==
  IF a.t \in {"int", "bool"} /\ b.t \in {"int", "bool"} THEN AsNumber(a) = AsNumber(b)
  ELSE IF a.t # b.t THEN FALSE
  ELSE IF a.t = "str" THEN a.v = b.v
  ELSE IF a.t = "list" THEN
    /\ Len(a.v) = Len(b.v)
    /\ \A i \in 1..Len(a.v) : PyEq(a.v[i], b.v[i])
  ELSE
    /\ DOMAIN a.v = DOMAIN b.v
    /\ \A k \in DOMAIN a.v : PyEq(a.v[k], b.v[k])

\* `item in result` for a Python list: some element == item.
PyIn(item, q) == \E i \in 1..Len(q) : PyEq(q[i], item)

RECURSIVE PyRepr(_)
RECURSIVE PyStr(_)
RECURSIVE JoinRepr(_)
RECURSIVE JoinItems(_, _)
\* ", ".join(repr(e) for e in q)
JoinRepr(q) ==
  IF q = <<>> THEN ""
  ELSE IF Len(q) = 1 THEN PyRepr(q[1])
  ELSE PyRepr(q[1]) \o ", " \o JoinRepr(Tail(q))

\* The (key, value) tuples of mapping f for the keys ks, as Python prints them.
JoinItems(f, ks) ==
  IF ks = <<>> THEN ""
  ELSE LET one == "('" \o ks[1] \o "', " \o PyRepr(f[ks[1]]) \o ")"
       IN IF Len(ks) = 1 THEN one ELSE one \o ", " \o JoinItems(f, Tail(ks))

\* repr(value): a string is quoted, everything else prints as str does.
PyRepr(a) == IF a.t = "str" THEN "'" \o a.v \o "'" ELSE PyStr(a)

\* str(value).  A mapping nested in a list or mapping prints its keys in
\* sorted order here (Python prints insertion order).
PyStr(a) ==
  IF a.t = "str" THEN a.v
  ELSE IF a.t = "int" THEN ToString(a.v)
  ELSE IF a.t = "bool" THEN (IF a.v THEN "True" ELSE "False")
  ELSE IF a.t = "list" THEN "[" \o JoinRepr(a.v) \o "]"
  ELSE "{" \o JoinItems(a.v, SortedKeys(DOMAIN a.v)) \o "}"

\* item_key: the dedup key of a list item.
item_key(item) ==
  IF item.t = "dict"
  THEN "[" \o JoinItems(item.v, SortedKeys(DOMAIN item.v)) \o "]"
  ELSE PyStr(item)

(***************************************************************************)
(* merge_values.  A result is [same, v]: v is the returned value and same  *)
(* says that it is the old_value object itself.                            *)
(***************************************************************************)
Same(old) == [same |-> TRUE, v |-> old]
Fresh(val) == [same |-> FALSE, v |-> val]

\* The clear branch with a final equality check against old_value.
ClearDictMutantKeepOld(old, new) ==
  LET body == [k \in DOMAIN new.v \ {CLEAR} |-> new.v[k]]
  IN IF body = old.v THEN Same(old) ELSE Fresh(VDict(body))

\* {k: v for k, v in new_value.items() if k != "!"}
ClearDict(old, new) ==
  Fresh(VDict([k \in DOMAIN new.v \ {CLEAR} |-> new.v[k]]))

RECURSIVE SpliceOld(_, _)
\* for old_item in old_value: if old_item not in result: result.append(old_item)
SpliceOld(result, olds) ==
  IF olds = <<>> THEN result
  ELSE IF PyIn(olds[1], result) THEN SpliceOld(result, Tail(olds))
  ELSE SpliceOld(Append(result, olds[1]), Tail(olds))

\* The keys of old_value's items (seen and old_keys start as this set).
OldKeys(old) ==
  IF old.t = "list" THEN {item_key(old.v[i]) : i \in 1..Len(old.v)} ELSE {}

RECURSIVE ListLoop(_, _, _)
\* for item in new_value: ...   st is [result, seen, changed].
ListLoop(st, old, news) ==
  IF news = <<>> THEN st
  ELSE LET item == news[1] IN
    IF PyEq(item, PRESERVE) THEN
      ListLoop(
        [st EXCEPT !.result = IF old.t = "list" THEN SpliceOld(st.result, old.v)
                              ELSE st.result],
        old, Tail(news))
    ELSE IF item_key(item) \notin st.seen THEN
      ListLoop(
        [result |-> Append(st.result, item),
         seen |-> st.seen \cup {item_key(item)},
         changed |-> TRUE],
        old, Tail(news))
    ELSE ListLoop(st, old, Tail(news))

\* The list branch with `seen` starting empty instead of holding old's keys.
MergeListMutantNoSeed(old, new) ==
  LET st == ListLoop([result |-> <<>>, seen |-> {}, changed |-> FALSE],
                     old, new.v)
  IN IF ~st.changed /\ old.t = "list" /\ Len(st.result) = Len(old.v)
     THEN Same(old)
     ELSE Fresh(VList(st.result))

\* The list branch of merge_values.
MergeList(old, new) ==
  LET st == ListLoop([result |-> <<>>, seen |-> OldKeys(old), changed |-> FALSE],
                     old, new.v)
  IN IF ~st.changed /\ old.t = "list" /\ Len(st.result) = Len(old.v)
     THEN Same(old)
     ELSE Fresh(VList(st.result))

RECURSIVE merge_values(_, _)
RECURSIVE DictLoop(_, _, _)
\* for key, val in new_value.items(): ...   st is [result, changed]; result
\* starts as old_value.copy().
DictLoop(st, new, keys) ==
  IF keys = <<>> THEN st
  ELSE LET key == keys[1] IN
    IF key \in DOMAIN st.result THEN
      LET merged == merge_values(st.result[key], new.v[key]) IN
      IF ~merged.same
      THEN DictLoop([result |-> [st.result EXCEPT ![key] = merged.v], changed |-> TRUE],
                    new, Tail(keys))
      ELSE DictLoop(st, new, Tail(keys))
    ELSE
      DictLoop([result |-> [k \in DOMAIN st.result \cup {key} |->
                              IF k = key THEN new.v[key] ELSE st.result[k]],
                changed |-> TRUE],
               new, Tail(keys))

\* The mapping branch without the clear marker, started from an empty result
\* instead of old_value.copy().
MergeDictMutantNoCopy(old, new) ==
  LET st == DictLoop([result |-> [k \in DOMAIN old.v \cap DOMAIN new.v |-> old.v[k]],
                      changed |-> FALSE],
                     new, SortedKeys(DOMAIN new.v))
  IN IF st.changed THEN Fresh(VDict(st.result)) ELSE Same(old)

\* The mapping branch without the clear marker.
MergeDict(old, new) ==
  LET st == DictLoop([result |-> old.v, changed |-> FALSE],
                     new, SortedKeys(DOMAIN new.v))
  IN IF st.changed THEN Fresh(VDict(st.result)) ELSE Same(old)

merge_values(old, new) ==
  IF new.t = "dict" /\ old.t = "dict" THEN
    IF CLEAR \in DOMAIN new.v THEN ClearDict(old, new) ELSE MergeDict(old, new)
  ELSE IF new.t = "list" THEN MergeList(old, new)
  ELSE IF PyEq(old, new) THEN Same(old)
  ELSE Fresh(new)

(***************************************************************************)
(* Inputs of the merge checks                                              *)
(***************************************************************************)
MaxOldLen == 2
MaxNewLen == 3

SeqsUpTo(S, n) == UNION {[1..k -> S] : k \in 0..n}

CoreElems == {VStr("x"), VStr("y"), VStr("z"), PRESERVE}

\* Items whose dedup key and whose value disagree: str(1) = str("1"), while
\* True == 1 with different keys; and a mapping item.
MixedElems == {VStr("x"), PRESERVE, VStr("1"), VInt(1), VBool(TRUE),
               VDict([a |-> VInt(1)])}

OldLists == {VList(q) : q \in SeqsUpTo(CoreElems, MaxOldLen) \cup SeqsUpTo(MixedElems, MaxOldLen)}
NewLists == {VList(q) : q \in SeqsUpTo(CoreElems, MaxNewLen) \cup SeqsUpTo(MixedElems, MaxOldLen)}

\* The values a flat mapping may hold under each key.
FlatValsFor(k) ==
  CASE k = "!" -> {VBool(TRUE)}
    [] k = "a" -> {VInt(1), VBool(TRUE)}
    [] k = "b" -> {VInt(2), VInt(3)}
    [] k = "c" -> {VInt(3)}

DictsOver(K, ValsFor(_)) ==
  UNION {{VDict(f) : f \in {g \in [D -> UNION {ValsFor(k) : k \in D}] :
                               \A k \in D : g[k] \in ValsFor(k)}} : D \in SUBSET K}

FlatDicts == DictsOver({"!", "a", "b", "c"}, FlatValsFor)

SmallLists == {VList(q) : q \in SeqsUpTo({VStr("x"), PRESERVE}, 1)}

NestedValsFor(k) ==
  CASE k = "dock" -> DictsOver({"!", "a", "b"}, FlatValsFor)
    [] k = "k" -> SmallLists \cup {VList(<<VStr("x"), VStr("x")>>)}
    [] k = "a" -> {VInt(1)}

NestedDicts == DictsOver({"dock", "k", "a"}, NestedValsFor)

Scalars == {VStr("x"), VInt(1), VBool(TRUE)}

\* The (old, new) pairs merge_values is applied to.
MergeInputs ==
  (OldLists \X NewLists)
    \cup (FlatDicts \X FlatDicts)
    \cup (NestedDicts \X NestedDicts)
    \cup ((Scalars \cup {EmptyDict, VDict([a |-> VInt(1)])}) \X (Scalars \cup SmallLists \cup {VDict([a |-> VInt(1)])}))
    \cup (SmallLists \X Scalars)

(***************************************************************************)
(* Store locator.  A domain identifier is [abs, dir, stem, suffix]: its    *)
(* text is dir \o stem \o suffix, suffix is what pathlib calls the suffix  *)
(* of the last component, abs says that the text starts with "/".  A path  *)
(* is [dir, name]; "~/" stands for the home directory.                     *)
(***************************************************************************)
HARDWARE_UUID == "UUID"
Home == "~/"

Text(domain) == domain.dir \o domain.stem \o domain.suffix

IsGlobal(domain) == Text(domain) \in {"NSGlobalDomain", "-g"}

SandboxedPath(domain) ==
  [dir |-> Home \o "Library/Containers/" \o Text(domain) \o "/Data/Library/Preferences/",
   name |-> Text(domain) \o ".plist"]

\* Whether get_plist_path reaches its sandboxed-container check.
ReachesSandboxCheck(domain, current_host) ==
  /\ ~domain.abs
  /\ domain.suffix # ".plist"
  /\ ~current_host
  /\ ~IsGlobal(domain)

\* get_plist_path, given the (cached) answer of the sandboxed-container check.
get_plist_path(domain, current_host, sandboxed) ==
  IF domain.abs THEN
    IF domain.suffix = ".plist"
    THEN [dir |-> domain.dir, name |-> domain.stem \o domain.suffix]
    ELSE [dir |-> domain.dir, name |-> domain.stem \o ".plist"]
  ELSE IF domain.suffix = ".plist" THEN
    [dir |-> domain.dir, name |-> domain.stem \o domain.suffix]
  ELSE IF current_host THEN
    IF IsGlobal(domain)
    THEN [dir |-> Home \o "Library/Preferences/ByHost/",
          name |-> ".GlobalPreferences." \o HARDWARE_UUID \o ".plist"]
    ELSE [dir |-> Home \o "Library/Preferences/ByHost/",
          name |-> Text(domain) \o "." \o HARDWARE_UUID \o ".plist"]
  ELSE IF IsGlobal(domain) THEN
    [dir |-> Home \o "Library/Preferences/", name |-> ".GlobalPreferences.plist"]
  ELSE IF sandboxed THEN SandboxedPath(domain)
  ELSE [dir |-> Home \o "Library/Preferences/", name |-> Text(domain) \o ".plist"]

\* path.with_suffix(path.suffix + ".prev")
BackupPath(path) == [path EXCEPT !.name = @ \o ".prev"]

(***************************************************************************)
(* Files                                                                   *)
(***************************************************************************)
Absent == [exists |-> FALSE, fmt |-> "none", data |-> EmptyDict]

\* plistlib.dump(data, f, fmt=fmt): the file it leaves.
Dump(data, fmt) == [exists |-> TRUE, fmt |-> fmt, data |-> data]

\* open(path, "wb") followed by a plistlib.dump that raises: what is left is
\* no property list, and read_plist's `except Exception` makes {} of it.
Torn == [exists |-> TRUE, fmt |-> "torn", data |-> EmptyDict]

\* plistlib.load(f)
Load(file) == file.data

\* is_binary_plist, given whether the read of the first 8 bytes succeeds.
is_binary_plist(file, readable) ==
  IF ~file.exists THEN TRUE
  ELSE IF readable THEN file.fmt = "binary"
  ELSE TRUE

\* read_plist, given whether the read succeeds.
read_plist(file, readable) ==
  IF ~file.exists THEN EmptyDict
  ELSE IF readable THEN Load(file)
  ELSE EmptyDict

\* The backup step of write_plist left out.
CopyToBackupMutantSkip(files, path) == files

\* shutil.copy2(path, backup_path) / sudo cp -p path backup_path
CopyToBackup(files, path) == [files EXCEPT ![BackupPath(path)] = files[path]]

\* write_plist returning None after every write.
ReturnedBackupMutantNone(files, path, use_sudo) ==
  [some |-> FALSE, path |-> BackupPath(path)]

\* What write_plist returns after a successful write: the backup path or None.
ReturnedBackup(files, path, use_sudo) ==
  IF use_sudo
  THEN [some |-> files[path].exists, path |-> BackupPath(path)]
  ELSE [some |-> files[BackupPath(path)].exists, path |-> BackupPath(path)]

(***************************************************************************)
(* The configurations and file systems a run starts from                   *)
(***************************************************************************)
MaxUnits == 2
MaxFaults == 1

DockDomain == [abs |-> FALSE, dir |-> "", stem |-> "com.apple", suffix |-> ".dock"]
GlobalDomain == [abs |-> FALSE, dir |-> "", stem |-> "-g", suffix |-> ""]

RunDomains == {DockDomain, GlobalDomain}

ProcNames == {"Dock", "Finder", "SystemUIServer"}

SetA1 == VDict([a |-> VInt(1)])
ListX == VDict([k |-> VList(<<VStr("x")>>)])
KeepY == VDict([k |-> VList(<<PRESERVE, VStr("y")>>)])
ClearA1 == VDict([k \in {"!", "a"} |-> IF k = "!" THEN VBool(TRUE) ELSE VInt(1)])

Entry(domain, values) == [domain |-> domain, values |-> values]

\* The documents: description aside, what process_toml_file reads of one.
UnitCatalog ==
  { [current_host |-> FALSE, sudo |-> FALSE, kill |-> <<"Dock">>,
     data |-> <<Entry(DockDomain, SetA1)>>],
    [current_host |-> FALSE, sudo |-> FALSE, kill |-> <<"Dock", "Finder">>,
     data |-> <<Entry(DockDomain, ListX), Entry(GlobalDomain, SetA1)>>],
    [current_host |-> FALSE, sudo |-> TRUE, kill |-> <<"Finder">>,
     data |-> <<Entry(GlobalDomain, ClearA1)>>],
    [current_host |-> TRUE, sudo |-> FALSE, kill |-> <<"SystemUIServer">>,
     data |-> <<Entry(DockDomain, KeepY)>>],
    [current_host |-> FALSE, sudo |-> FALSE, kill |-> <<"SystemUIServer">>,
     data |-> <<>>] }

StorePaths ==
  {get_plist_path(d, h, sb) : d \in RunDomains, h \in BOOLEAN, sb \in BOOLEAN}

Paths == StorePaths \cup {BackupPath(p) : p \in StorePaths}

DockPath == get_plist_path(DockDomain, FALSE, FALSE)
GlobalPath == get_plist_path(GlobalDomain, FALSE, FALSE)

\* The contents the store of com.apple.dock, the global store, a stale
\* backup and the sandboxed-container store may start with.
DockFiles ==
  {Absent, Dump(SetA1, "binary"),
   Dump(VDict([b |-> VInt(2), k |-> VList(<<VStr("x")>>)]), "xml")}
GlobalFiles == {Absent, Dump(VDict([a |-> VInt(1), b |-> VInt(2)]), "binary")}
StaleFiles == {Absent, Dump(VDict([c |-> VInt(3)]), "xml")}
SandboxedFiles == {Absent, Dump(SetA1, "binary")}

\* The file system holding the given files and nothing else.
FsOf(dock, global, stale_dock, sandboxed) ==
  [p \in Paths |->
     IF p = DockPath THEN dock
     ELSE IF p = GlobalPath THEN global
     ELSE IF p = BackupPath(DockPath) THEN stale_dock
     ELSE IF p = SandboxedPath(DockDomain) THEN sandboxed
     ELSE Absent]

NoPath == [dir |-> "", name |-> ""]

NoWrite == [path |-> NoPath, data |-> EmptyDict, use_sudo |-> FALSE,
            fmt |-> "none", pre |-> Absent, outcome |-> "none"]

NoReturn == [valid |-> FALSE, at |-> <<0, 0, 0>>, path |-> NoPath,
             use_sudo |-> FALSE, pre |-> Absent, data |-> EmptyDict,
             some |-> FALSE, backup |-> NoPath]

NoFirst == [pc |-> "none", dry_run |-> FALSE, fs |-> [p \in Paths |-> Absent],
            flags |-> <<>>, faults |-> 0]

\* The state in which an invocation starts process_path.
StartOfRun ==
  /\ pc = "unit"
  /\ ui = 1 /\ di = 1 /\ bi = 1
  /\ sandboxed_cache = [yes |-> {}, no |-> {}]
  /\ changes_in_file = FALSE
  /\ file_backups = <<>>
  /\ all_changes = FALSE
  /\ all_processes = {}
  /\ all_backups = <<>>
  /\ w = NoWrite
  /\ flags = <<>>
  /\ copies = <<>>
  /\ writes = <<>>
  /\ kills = [n \in ProcNames |-> 0]
  /\ signals = 0
  /\ ret = NoReturn
  /\ removals = <<>>

\* No call of get_plist_path under test.
NoLocate ==
  /\ g_args = [domain |-> GlobalDomain, current_host |-> FALSE, sandboxed |-> FALSE]
  /\ g_done = TRUE
  /\ g_path = NoPath

NoMerge ==
  /\ m_old = EmptyDict
  /\ m_new = EmptyDict
  /\ m_done = TRUE
  /\ m_res = Same(EmptyDict)

Init ==
  /\ NoMerge
  /\ NoLocate
  /\ units \in UNION {[1..n -> UnitCatalog] : n \in 1..MaxUnits}
  /\ dry_run \in BOOLEAN
  /\ run = 1
  /\ \E dock \in DockFiles, global \in GlobalFiles, stale_dock \in StaleFiles,
        sandboxed \in SandboxedFiles :
       /\ sandboxed.exists => ~dock.exists
       /\ fs = FsOf(dock, global, stale_dock, sandboxed)
  /\ dirs = {Home \o "Library/Preferences/"} \cup {p.dir : p \in {q \in Paths : fs[q].exists}}
  /\ faults = 0
  /\ first = NoFirst
  /\ start = [fs |-> fs, dirs |-> dirs]
  /\ StartOfRun

(***************************************************************************)
(* The run: main -> process_path -> process_toml_file -> apply_defaults    *)
(* -> write_plist, then kill_processes and cleanup_backups.  pc is         *)
(*   "unit"    process_path about to call process_toml_file for unit ui,   *)
(*             or, past the last unit, main about to restart processes;    *)
(*   "apply"   process_toml_file about to apply domain di of unit ui;      *)
(*   "backup"  write_plist entered, before its backup copy;                *)
(*   "write"   write_plist after the backup copy, before the write;        *)
(*   "cleanup" cleanup_backups about to remove backup bi;                  *)
(*   "done"    the script has exited; "crashed": an exception ended it.    *)
(* A failure of the environment (an unreadable file, a PermissionError, a  *)
(* failing sudo command) is a choice of the action, MaxFaults of them at   *)
(* most over the invocations.                                              *)
(***************************************************************************)
Range(q) == {q[i] : i \in 1..Len(q)}

\* What is remembered of one return of apply_defaults.
Flag(changed, path, file) ==
  [u |-> ui, d |-> di, changed |-> changed, path |-> path, existed |-> file.exists]

\* process_toml_file up to its loop over data.items().
StartUnit ==
  /\ pc = "unit"
  /\ ui <= Len(units)
  /\ IF units[ui].data = <<>>
     THEN /\ ui' = ui + 1
          /\ UNCHANGED <<pc, di, changes_in_file, file_backups>>
     ELSE /\ pc' = "apply"
          /\ di' = 1
          /\ changes_in_file' = FALSE
          /\ file_backups' = <<>>
          /\ UNCHANGED ui
  /\ UNCHANGED <<units, start, removals, dry_run, run, bi, fs, dirs, sandboxed_cache, all_changes,
                 all_processes, all_backups, w, faults, flags, copies, writes,
                 kills, signals, ret, first>>
  /\ UNCHANGED mvars

\* apply_defaults for domain di of unit ui: get_plist_path, read_plist,
\* merge_values, the identity check; and write_plist's return when dry_run.
ApplyDefaults ==
  /\ pc = "apply"
  /\ di <= Len(units[ui].data)
  /\ LET unit == units[ui]
         entry == unit.data[di]
         key == Text(entry.domain)
         check == ReachesSandboxCheck(entry.domain, unit.current_host)
         cached == key \in (sandboxed_cache.yes \cup sandboxed_cache.no)
         sandboxed == IF ~check THEN FALSE
                      ELSE IF cached THEN key \in sandboxed_cache.yes
                      ELSE fs[SandboxedPath(entry.domain)].exists
         path == get_plist_path(entry.domain, unit.current_host, sandboxed)
     IN
     /\ sandboxed_cache' =
          IF check /\ ~cached
          THEN IF sandboxed THEN [sandboxed_cache EXCEPT !.yes = @ \cup {key}]
                            ELSE [sandboxed_cache EXCEPT !.no = @ \cup {key}]
          ELSE sandboxed_cache
     /\ \E readable \in BOOLEAN :
          /\ ~readable => (fs[path].exists /\ faults < MaxFaults)
          /\ faults' = IF readable THEN faults ELSE faults + 1
          /\ LET old_data == read_plist(fs[path], readable)
                 new_data == merge_values(old_data, entry.values)
             IN IF new_data.same THEN
                  /\ flags' = Append(flags, Flag(FALSE, path, fs[path]))
                  /\ di' = di + 1
                  /\ UNCHANGED <<pc, changes_in_file, w>>
                ELSE IF dry_run THEN
                  /\ flags' = Append(flags, Flag(TRUE, path, fs[path]))
                  /\ changes_in_file' = TRUE
                  /\ di' = di + 1
                  /\ UNCHANGED <<pc, w>>
                ELSE
                  /\ w' = [path |-> path, data |-> new_data.v,
                           use_sudo |-> unit.sudo, fmt |-> "none", pre |-> fs[path],
                           outcome |-> "none"]
                  /\ pc' = "backup"
                  /\ UNCHANGED <<flags, di, changes_in_file>>
  /\ UNCHANGED <<units, start, removals, dry_run, run, ui, bi, fs, dirs, file_backups, all_changes,
                 all_processes, all_backups, copies, writes, kills, signals, ret,
                 first>>
  /\ UNCHANGED mvars

\* write_plist from the parent directory to the backup copy.
WriteBackup ==
  /\ pc = "backup"
  /\ \E mkdir_ok, sniff_ok, copy_ok \in BOOLEAN :
       LET failures == (IF mkdir_ok THEN 0 ELSE 1) + (IF sniff_ok THEN 0 ELSE 1)
                         + (IF copy_ok THEN 0 ELSE 1)
           file == fs[w.path]
       IN
       /\ faults + failures <= MaxFaults
       /\ ~mkdir_ok => (~w.use_sudo /\ w.path.dir \notin dirs /\ sniff_ok /\ copy_ok)
       /\ ~sniff_ok => file.exists
       /\ ~copy_ok => file.exists
       /\ faults' = faults + failures
       /\ IF ~mkdir_ok THEN
            /\ pc' = "crashed"
            /\ UNCHANGED <<dirs, fs, w, copies>>
          ELSE
            /\ dirs' = IF w.use_sudo THEN dirs ELSE dirs \cup {w.path.dir}
            /\ w' = [w EXCEPT !.fmt = IF is_binary_plist(file, sniff_ok)
                                      THEN "binary" ELSE "xml"]
            /\ IF ~file.exists THEN
                 /\ pc' = "write"
                 /\ UNCHANGED <<fs, copies>>
               ELSE IF copy_ok THEN
                 /\ fs' = CopyToBackup(fs, w.path)
                 /\ copies' = Append(copies, [u |-> ui, d |-> di, path |-> BackupPath(w.path)])
                 /\ pc' = "write"
               ELSE
                 /\ pc' = "crashed"
                 /\ UNCHANGED <<fs, copies>>
  /\ UNCHANGED <<units, start, removals, dry_run, run, ui, di, bi, sandboxed_cache, changes_in_file,
                 file_backups, all_changes, all_processes, all_backups, flags,
                 writes, kills, signals, ret, first>>
  /\ UNCHANGED mvars

\* The ways the write of write_plist can go: "fails" is open() raising
\* something other than PermissionError, "torn" is plistlib.dump raising.
WriteOutcomes(use_sudo) ==
  IF use_sudo THEN {"ok", "sudo_fails"}
  ELSE {"ok", "denied_sudo_ok", "denied_sudo_fails", "fails", "torn"}

\* The calls of write_with_sudo one call of write_plist makes: one when
\* use_sudo, one from the `except PermissionError` branch, none otherwise.
ElevatedAttempts(use_sudo, outcome) ==
  IF use_sudo THEN 1
  ELSE IF outcome \in {"denied_sudo_ok", "denied_sudo_fails"} THEN 1
  ELSE 0

\* An outcome other than "ok" is one failure of the environment.
WriteFailures(outcome) == IF outcome = "ok" THEN 0 ELSE 1

\* write_plist from the write to its return, and apply_defaults' return into
\* the loop of process_toml_file.
WriteData ==
  /\ pc = "write"
  /\ \E outcome \in WriteOutcomes(w.use_sudo) :
       LET nodir == w.use_sudo /\ w.path.dir \notin dirs
           written == [fs EXCEPT ![w.path] = Dump(w.data, w.fmt)]
           backup == ReturnedBackup(written, w.path, w.use_sudo)
       IN
       /\ nodir => outcome = "sudo_fails"
       /\ ~nodir => faults + WriteFailures(outcome) <= MaxFaults
       /\ faults' = IF nodir THEN faults ELSE faults + WriteFailures(outcome)
       /\ w' = [w EXCEPT !.outcome = outcome]
       /\ IF outcome \in {"ok", "denied_sudo_ok"} THEN
            /\ fs' = written
            /\ writes' = Append(writes, w.path)
            /\ ret' = [valid |-> TRUE, at |-> <<run, ui, di>>, path |-> w.path,
                       use_sudo |-> w.use_sudo, pre |-> w.pre, data |-> w.data,
                       some |-> backup.some, backup |-> backup.path]
            /\ changes_in_file' = TRUE
            /\ file_backups' = IF backup.some THEN Append(file_backups, backup.path)
                               ELSE file_backups
            /\ flags' = Append(flags, Flag(TRUE, w.path, w.pre))
            /\ di' = di + 1
            /\ pc' = "apply"
          ELSE
            /\ pc' = "crashed"
            /\ fs' = IF outcome = "torn" THEN [fs EXCEPT ![w.path] = Torn] ELSE fs
            /\ UNCHANGED <<writes, ret, changes_in_file, file_backups, flags, di>>
  /\ UNCHANGED <<units, start, removals, dry_run, run, ui, bi, dirs, sandboxed_cache, all_changes,
                 all_processes, all_backups, copies, kills, signals, first>>
  /\ UNCHANGED mvars

\* The kill list process_toml_file returns, whether or not the file changed.
UnitProcessesMutantAlways(kill_list, changed) == Range(kill_list)

\* processes = set(kill_list) if changes_in_file else set()
UnitProcesses(kill_list, changed) == IF changed THEN Range(kill_list) ELSE {}

\* The return of process_toml_file into the loop of process_path.
EndUnit ==
  /\ pc = "apply"
  /\ di > Len(units[ui].data)
  /\ all_changes' = (all_changes \/ changes_in_file)
  /\ all_processes' = all_processes \cup UnitProcesses(units[ui].kill, changes_in_file)
  /\ all_backups' = all_backups \o file_backups
  /\ ui' = ui + 1
  /\ pc' = "unit"
  /\ UNCHANGED <<units, start, removals, dry_run, run, di, bi, fs, dirs, sandboxed_cache,
                 changes_in_file, file_backups, w, faults, flags, copies, writes,
                 kills, signals, ret, first>>
  /\ UNCHANGED mvars

\* kill_processes: one killall per name, none when dry_run.
kill_processes(counts, processes, dry) ==
  IF dry THEN counts
  ELSE [n \in DOMAIN counts |-> IF n \in processes THEN counts[n] + 1 ELSE counts[n]]

\* main after process_path: the restarts and the cfprefsd restart.
RestartProcesses ==
  /\ pc = "unit"
  /\ ui > Len(units)
  /\ IF all_changes
     THEN /\ kills' = kill_processes(kills, all_processes, dry_run)
          /\ signals' = IF dry_run THEN signals ELSE signals + 1
     ELSE UNCHANGED <<kills, signals>>
  /\ pc' = "cleanup"
  /\ bi' = 1
  /\ UNCHANGED <<units, start, removals, dry_run, run, ui, di, fs, dirs, sandboxed_cache,
                 changes_in_file, file_backups, all_changes, all_processes,
                 all_backups, w, faults, flags, copies, writes, ret, first>>
  /\ UNCHANGED mvars

\* The ways one removal can go: unlink works, unlink raises PermissionError
\* and sudo rm works or fails, unlink raises something else.
RemoveOutcomes == {"ok", "denied_sudo_ok", "denied_sudo_fails", "fails"}

\* The calls of sudo_remove for one backup: one from `except PermissionError`.
RemoveElevated(outcome) ==
  IF outcome \in {"denied_sudo_ok", "denied_sudo_fails"} THEN 1 ELSE 0

\* cleanup_backups giving up at the first removal that fails.
NextBackupMutantBreak(i, outcome) ==
  IF outcome \in {"ok", "denied_sudo_ok"} THEN i + 1 ELSE Len(all_backups) + 1

\* `for backup_path in backups`: every exception is caught inside the loop
\* body, so the loop goes on to the next path whatever the outcome.
NextBackup(i, outcome) == i + 1

\* cleanup_backups: one turn of its loop.
CleanupBackup ==
  /\ pc = "cleanup"
  /\ bi <= Len(all_backups)
  /\ LET backup_path == all_backups[bi] IN
     \E outcome \in RemoveOutcomes :
       /\ ~fs[backup_path].exists => outcome = "fails"
       /\ fs[backup_path].exists => faults + WriteFailures(outcome) <= MaxFaults
       /\ faults' = IF fs[backup_path].exists THEN faults + WriteFailures(outcome)
                    ELSE faults
       /\ fs' = IF outcome \in {"ok", "denied_sudo_ok"}
                THEN [fs EXCEPT ![backup_path] = Absent]
                ELSE fs
       /\ removals' = Append(removals, [path |-> backup_path, outcome |-> outcome,
                                        elevated |-> RemoveElevated(outcome)])
       /\ bi' = NextBackup(bi, outcome)
  /\ UNCHANGED <<units, start, dry_run, run, pc, ui, di, dirs, sandboxed_cache,
                 changes_in_file, file_backups, all_changes, all_processes,
                 all_backups, w, flags, copies, writes, kills, signals, ret, first>>
  /\ UNCHANGED mvars

\* main: sys.exit after cleanup_backups.
Exit ==
  /\ pc = "cleanup"
  /\ bi > Len(all_backups)
  /\ pc' = "done"
  /\ UNCHANGED <<units, start, removals, dry_run, run, ui, di, bi, fs, dirs, sandboxed_cache,
                 changes_in_file, file_backups, all_changes, all_processes,
                 all_backups, w, faults, flags, copies, writes, kills, signals,
                 ret, first>>
  /\ UNCHANGED mvars

\* The script is invoked again on the same documents, for real.
Rerun ==
  /\ pc \in {"done", "crashed"}
  /\ run = 1
  /\ run' = run + 1
  /\ dry_run' = FALSE
  /\ first' = [pc |-> pc, dry_run |-> dry_run, fs |-> fs, flags |-> flags,
               faults |-> faults]
  /\ pc' = "unit"
  /\ ui' = 1 /\ di' = 1 /\ bi' = 1
  /\ sandboxed_cache' = [yes |-> {}, no |-> {}]
  /\ changes_in_file' = FALSE
  /\ file_backups' = <<>>
  /\ all_changes' = FALSE
  /\ all_processes' = {}
  /\ all_backups' = <<>>
  /\ w' = NoWrite
  /\ flags' = <<>>
  /\ copies' = <<>>
  /\ writes' = <<>>
  /\ kills' = [n \in ProcNames |-> 0]
  /\ signals' = 0
  /\ ret' = NoReturn
  /\ removals' = <<>>
  /\ start' = [fs |-> fs, dirs |-> dirs]
  /\ UNCHANGED <<units, fs, dirs, faults>>
  /\ UNCHANGED mvars

Next ==
  \/ StartUnit
  \/ ApplyDefaults
  \/ WriteBackup
  \/ WriteData
  \/ EndUnit
  \/ RestartProcesses
  \/ CleanupBackup
  \/ Exit
  \/ Rerun

Spec == Init /\ [][Next]_vars

(***************************************************************************)
(* merge_values on its own                                                 *)
(***************************************************************************)
\* No invocation of the script: the run's variables at rest.
NoRun ==
  /\ units = <<>>
  /\ dry_run = FALSE
  /\ run = 0
  /\ fs = [p \in Paths |-> Absent]
  /\ dirs = {}
  /\ faults = 0
  /\ first = NoFirst
  /\ start = [fs |-> fs, dirs |-> dirs]
  /\ StartOfRun

InitMerge ==
  /\ \E p \in MergeInputs : m_old = p[1] /\ m_new = p[2]
  /\ m_done = FALSE
  /\ m_res = Fresh(EmptyDict)
  /\ NoLocate
  /\ NoRun

\* One call merge_values(m_old, m_new).
CallMerge ==
  /\ ~m_done
  /\ m_done' = TRUE
  /\ m_res' = merge_values(m_old, m_new)
  /\ UNCHANGED <<m_old, m_new, g_args, g_done, g_path>>
  /\ UNCHANGED rvars

NextMerge == CallMerge

SpecMerge == InitMerge /\ [][NextMerge]_vars

(***************************************************************************)
(* get_plist_path on its own                                               *)
(***************************************************************************)
\* The identifiers: a directory part, and the final component split at its
\* last dot as pathlib does (Path.stem, Path.suffix).
LocateDomains ==
  {[abs |-> a, dir |-> d, stem |-> st, suffix |-> su] :
     a \in BOOLEAN, d \in {"", "~/x/", "/Library/Preferences/"},
     st \in {"com.apple", "finder", "NSGlobalDomain", "-g"},
     su \in {"", ".dock", ".plist"}}

\* domain.startswith("/")
LocateInputs ==
  {[domain |-> dom, current_host |-> h, sandboxed |-> sb] :
     dom \in {x \in LocateDomains : x.abs <=> (x.dir = "/Library/Preferences/")},
     h \in BOOLEAN, sb \in BOOLEAN}

InitLocate ==
  /\ g_args \in LocateInputs
  /\ g_done = FALSE
  /\ g_path = NoPath
  /\ NoMerge
  /\ NoRun

\* One call get_plist_path(domain, current_host) with an empty
\* _sandboxed_cache; g_args.sandboxed says whether the container store exists.
CallLocate ==
  /\ ~g_done
  /\ g_done' = TRUE
  /\ g_path' = get_plist_path(g_args.domain, g_args.current_host,
                              ReachesSandboxCheck(g_args.domain, g_args.current_host)
                                /\ g_args.sandboxed)
  /\ UNCHANGED <<m_old, m_new, m_done, m_res, g_args>>
  /\ UNCHANGED rvars

NextLocate == CallLocate

SpecLocate == InitLocate /\ [][NextLocate]_vars

(***************************************************************************)
(* Claims about merge_values (checked under SpecMerge)                     *)
(***************************************************************************)
IsDict(a) == a.t = "dict"
IsList(a) == a.t = "list"

RECURSIVE HasClearMarker(_)
\* A clear-marker key at any depth of a value.
HasClearMarker(a) ==
  IF a.t = "dict" THEN
    \/ CLEAR \in DOMAIN a.v
    \/ \E k \in DOMAIN a.v : HasClearMarker(a.v[k])
  ELSE IF a.t = "list" THEN \E i \in 1..Len(a.v) : HasClearMarker(a.v[i])
  ELSE FALSE

RECURSIVE NoKeyDiffers(_, _)
\* Every key of N is in M with an equal value, at every nesting depth.
NoKeyDiffers(M, N) ==
  \A k \in DOMAIN N.v :
    /\ k \in DOMAIN M.v
    /\ IF IsDict(M.v[k]) /\ IsDict(N.v[k]) THEN NoKeyDiffers(M.v[k], N.v[k])
       ELSE PyEq(M.v[k], N.v[k])

\* C3: identity short-circuit.  For mappings M and N (N without clear
\* markers) in which no key of N differs from M, merge(M, N) is M itself.
C3_IdentityShortCircuit ==
  (m_done /\ IsDict(m_old) /\ IsDict(m_new) /\ ~HasClearMarker(m_new)
     /\ NoKeyDiffers(m_old, m_new))
    => m_res.same

ClearExampleOld == VDict([a |-> VInt(1), b |-> VInt(2)])
ClearExampleNew == VDict([k \in {"!", "c"} |-> IF k = "!" THEN VBool(TRUE) ELSE VInt(3)])

\* C4: clear operator.  When old and new are mappings and new holds the key
\* "!", the result is new without that key (nothing of old survives, nothing
\* is merged recursively) and it is a new object, never old itself; and
\* merge({a:1,b:2}, {"!":true,c:3}) = {c:3}.
C4_ClearOperator ==
  (m_done /\ IsDict(m_old) /\ IsDict(m_new) /\ CLEAR \in DOMAIN m_new.v) =>
    /\ ~m_res.same
    /\ IsDict(m_res.v)
    /\ DOMAIN m_res.v.v = DOMAIN m_new.v \ {CLEAR}
    /\ \A k \in DOMAIN m_res.v.v : m_res.v.v[k] = m_new.v[k]
    /\ (m_old = ClearExampleOld /\ m_new = ClearExampleNew)
         => m_res.v = VDict([c |-> VInt(3)])

\* C4: the clear operator applied where the cleared content equals old's.
C4_Witness ==
  /\ m_done
  /\ m_old = VDict([c |-> VInt(3)])
  /\ m_new = ClearExampleNew
  /\ m_res.v = m_old
  /\ ~m_res.same

RECURSIVE PickIdx(_, _, _)
\* The items of q at the indices >= i that lie in I, in q's order.
PickIdx(q, I, i) ==
  IF i > Len(q) THEN <<>>
  ELSE IF i \in I THEN <<q[i]>> \o PickIdx(q, I, i + 1)
  ELSE PickIdx(q, I, i + 1)

IsMarker(item) == item.t = "str" /\ item.v = "..."

\* The positions of new whose element is appended: not the marker, its dedup
\* key that of no old item and of no earlier non-marker element of new.
AppendedIdx(old, new) ==
  {i \in 1..Len(new) :
     /\ ~IsMarker(new[i])
     /\ \A j \in 1..Len(old) : item_key(old[j]) # item_key(new[i])
     /\ \A j \in 1..(i - 1) : ~IsMarker(new[j]) => item_key(new[j]) # item_key(new[i])}

MarkerIdx(new) == {i \in 1..Len(new) : IsMarker(new[i])}

FirstMarker(new) == CHOOSE i \in MarkerIdx(new) : \A j \in MarkerIdx(new) : i <= j

\* What the preserve operator is stated to produce for sequences old, new.
ExpectedList(old, new) ==
  IF MarkerIdx(new) = {} THEN PickIdx(new, AppendedIdx(old, new), 1)
  ELSE
    LET m == FirstMarker(new)
        before == PickIdx(new, {i \in AppendedIdx(old, new) : i < m}, 1)
        spliced == PickIdx(old,
                     {k \in 1..Len(old) :
                        /\ ~PyIn(old[k], before)
                        /\ \A j \in 1..(k - 1) : ~PyEq(old[j], old[k])}, 1)
        after == PickIdx(new, {i \in AppendedIdx(old, new) : i > m}, 1)
    IN before \o spliced \o after

PreserveExampleOld == VList(<<VStr("x"), VStr("y")>>)
PreserveExampleNew == VList(<<VStr("z"), PRESERVE, VStr("x")>>)

\* C5: preserve operator with dedup.  For sequences old and new the result
\* is, left to right over new: at the marker "..." every old item (in old's
\* order) not value-equal to an item already in the result; any other
\* element only if its dedup key is that of no old item and of no element
\* appended earlier.  merge([x,y], [z,"...",x]) = [z,x,y].
C5_PreserveOperator ==
  (m_done /\ IsList(m_old) /\ IsList(m_new)) =>
    /\ m_res.v = VList(ExpectedList(m_old.v, m_new.v))
    /\ (m_old = PreserveExampleOld /\ m_new = PreserveExampleNew)
         => m_res.v = VList(<<VStr("z"), VStr("x"), VStr("y")>>)

\* C5: the example of the claim has been merged.
C5_Witness ==
  /\ m_done
  /\ m_old = PreserveExampleOld
  /\ m_new = PreserveExampleNew
  /\ m_res.v = VList(<<VStr("z"), VStr("x"), VStr("y")>>)

DockA1B(n) == VDict([dock |-> VDict([a |-> VInt(1), b |-> VInt(n)])])

\* C6: recursive merge keeps untouched siblings.  For mappings old and new
\* without a clear marker in new, the result has every key of old and of
\* new; a key only in old keeps old's value, a key in both holds the merge
\* of the two values, a key only in new holds new's value; and
\* merge({dock:{a:1,b:2}}, {dock:{b:3}}) = {dock:{a:1,b:3}}.
C6_SiblingsPreserved ==
  (m_done /\ IsDict(m_old) /\ IsDict(m_new) /\ CLEAR \notin DOMAIN m_new.v) =>
    /\ IsDict(m_res.v)
    /\ DOMAIN m_res.v.v = DOMAIN m_old.v \cup DOMAIN m_new.v
    /\ \A k \in DOMAIN m_old.v \ DOMAIN m_new.v : m_res.v.v[k] = m_old.v[k]
    /\ \A k \in DOMAIN m_old.v \cap DOMAIN m_new.v :
         m_res.v.v[k] = merge_values(m_old.v[k], m_new.v[k]).v
    /\ \A k \in DOMAIN m_new.v \ DOMAIN m_old.v : m_res.v.v[k] = m_new.v[k]
    /\ (m_old = DockA1B(2) /\ m_new = VDict([dock |-> VDict([b |-> VInt(3)])]))
         => m_res.v = DockA1B(3)

\* C6: a nested merge that changed one key beside an untouched sibling.
C6_Witness ==
  /\ m_done
  /\ m_old = DockA1B(2)
  /\ m_new = VDict([dock |-> VDict([b |-> VInt(3)])])
  /\ m_res = Fresh(DockA1B(3))

(***************************************************************************)
(* Properties of the run                                                   *)
(***************************************************************************)

\* The second invocation has exited, after a first real one that exited,
\* with no failure of the environment in either.
SecondRunDone ==
  /\ run = 2
  /\ pc = "done"
  /\ first.pc = "done"
  /\ ~first.dry_run
  /\ faults = 0

\* C1: idempotence.  When the script is run twice in sequence on the same
\* units (none with a clear marker, nothing else touching the stores), the
\* second run reports changed = false for every domain, writes nothing, and
\* leaves the stores as the first run left them.
C1_Idempotence ==
  (SecondRunDone /\ \A u \in 1..Len(units) : \A d \in 1..Len(units[u].data) :
                      ~HasClearMarker(units[u].data[d].values)) =>
    /\ \A i \in 1..Len(flags) : ~flags[i].changed
    /\ writes = <<>>
    /\ fs = first.fs

\* apply_defaults has just returned from a write: ret describes that call.
JustReturned ==
  /\ pc = "apply"
  /\ ret.valid
  /\ ret.at = <<run, ui, di - 1>>

\* The desired value of the domain the last write was for.
ReturnedValues == units[ret.at[2]].data[ret.at[3]].values

\* C2: existing configuration is never lost.  When apply_defaults returns
\* for a domain whose desired value has no clear marker at top level, every
\* top-level key the store held before the call is still in the store, with
\* its prior value when the desired value does not mention it; also when the
\* read of the store failed.
C2_ConfigNeverLost ==
  (JustReturned /\ CLEAR \notin DOMAIN ReturnedValues.v) =>
    \A k \in DOMAIN ret.pre.data.v :
      /\ k \in DOMAIN fs[ret.path].data.v
      /\ k \notin DOMAIN ReturnedValues.v =>
           fs[ret.path].data.v[k] = ret.pre.data.v[k]

\* C7: write guarantee.  When write_plist returns from a write, the target
\* holds the new value, and if it returned a backup path then a file exists
\* there and holds exactly what the target held immediately before the
\* write: elevated or not, target new or not, stale backup present or not.
C7_WriteGuarantee ==
  JustReturned =>
    /\ fs[ret.path].exists
    /\ fs[ret.path].data = ret.data
    /\ ret.some =>
         /\ ret.backup = BackupPath(ret.path)
         /\ fs[ret.backup].exists
         /\ ret.pre.exists
         /\ fs[ret.backup] = ret.pre

\* The step changes the content of the existing store at path p.
Modifies(p) == fs[p].exists /\ fs'[p] # fs[p]

\* The value write_plist is about to write is the merge of the desired value
\* of the domain at hand into what read_plist made of the store.
SuccessorComputed ==
  LET values == units[ui].data[di].values IN
  \/ w.data = merge_values(read_plist(w.pre, TRUE), values).v
  \/ w.data = merge_values(read_plist(w.pre, FALSE), values).v

\* C8: backup-before-mutation ordering.  Every step that modifies the
\* content of an existing store is the write of write_plist for that store,
\* taken when the merged successor value has been computed and the backup
\* copy made by this call holds the store's content; and a step in which
\* the backup copy fails leaves every file as it was.
C8_BackupBeforeMutation ==
  [][/\ \A p \in StorePaths :
          Modifies(p) =>
            /\ pc = "write"
            /\ w.path = p
            /\ SuccessorComputed
            /\ copies # <<>>
            /\ copies[Len(copies)] = [u |-> ui, d |-> di, path |-> BackupPath(p)]
            /\ fs[BackupPath(p)] = fs[p]
     /\ (pc = "backup" /\ pc' = "crashed") => fs' = fs]_vars

\* C8: an existing store has been rewritten and its backup holds what it
\* held before.
C8_Witness ==
  /\ JustReturned
  /\ ret.pre.exists
  /\ fs[ret.path] # ret.pre
  /\ fs[BackupPath(ret.path)] = ret.pre

\* The returns of apply_defaults in this run that reported a change.
ChangedFlags == {i \in 1..Len(flags) : flags[i].changed}

\* A real run has exited and no operation failed on the way.
RealRunDone ==
  /\ pc = "done"
  /\ ~dry_run
  /\ faults = 0

\* The one change of a run that changed exactly one domain.
TheChange == flags[CHOOSE i \in ChangedFlags : TRUE]

\* The backup copy made during the write of the one change, and no other.
OneBackupOfTheChange ==
  copies = <<[u |-> TheChange.u, d |-> TheChange.d, path |-> BackupPath(TheChange.path)]>>

\* C9 as stated: a successful run that changes one domain creates exactly
\* one backup file during that domain's write, and the file is gone after
\* the cleanup phase.
C9_OneBackupPerChange ==
  (RealRunDone /\ Cardinality(ChangedFlags) = 1) =>
    /\ OneBackupOfTheChange
    /\ ~fs[BackupPath(TheChange.path)].exists

\* C9: backup lifecycle.  A successful run that changes one domain creates
\* exactly one backup file during that domain's write when the domain's
\* store existed before the write, and none when it did not; after the
\* cleanup phase that file no longer exists.  Until the cleanup phase every
\* backup made in the run still exists, also when the run has ended with a
\* fatal failure in a later domain.
C9_BackupLifecycle ==
  /\ (RealRunDone /\ Cardinality(ChangedFlags) = 1) =>
       IF TheChange.existed
       THEN OneBackupOfTheChange /\ ~fs[BackupPath(TheChange.path)].exists
       ELSE copies = <<>>
  /\ pc \notin {"cleanup", "done"} =>
       \A i \in 1..Len(copies) : fs[copies[i].path].exists

\* C9: a run that changed one existing store has exited; it made one backup
\* and the cleanup removed it.
C9_Witness ==
  /\ RealRunDone
  /\ Cardinality(ChangedFlags) = 1
  /\ TheChange.existed
  /\ OneBackupOfTheChange
  /\ ~fs[BackupPath(TheChange.path)].exists

\* A run ended by a fatal failure after an earlier domain was backed up and
\* written.
CrashedAfterBackup ==
  /\ pc = "crashed"
  /\ ChangedFlags # {}
  /\ \E i \in 1..Len(copies) : <<copies[i].u, copies[i].d>> # <<ui, di>>

\* Unit u reported a change in one of its domains.
UnitChanged(u) == \E i \in ChangedFlags : flags[i].u = u

\* The names declared by at least one unit in which some domain changed.
DeclaredByChangedUnit ==
  {n \in ProcNames : \E u \in 1..Len(units) : UnitChanged(u) /\ n \in Range(units[u].kill)}

\* C10: restart aggregation.  In a real run, once main has passed the
\* restarts, each name declared by a unit in which some domain changed has
\* been restarted exactly once and no other name at all, and cfprefsd has
\* been restarted exactly once if any domain changed and never otherwise;
\* before all units have been processed nothing is restarted.
C10_RestartAggregation ==
  ~dry_run =>
    /\ pc \in {"cleanup", "done"} =>
         /\ \A n \in ProcNames :
              kills[n] = IF n \in DeclaredByChangedUnit THEN 1 ELSE 0
         /\ signals = IF ChangedFlags # {} THEN 1 ELSE 0
    /\ (signals > 0 \/ \E n \in ProcNames : kills[n] > 0) =>
         /\ ui > Len(units)
         /\ pc \in {"cleanup", "done"}

\* C10: two units that both changed and both declare Dock; the run is over,
\* Dock was restarted once and cfprefsd once.
C10_Witness ==
  /\ pc = "done"
  /\ ~dry_run
  /\ Len(units) = 2
  /\ UnitChanged(1) /\ UnitChanged(2)
  /\ "Dock" \in Range(units[1].kill) \cap Range(units[2].kill)
  /\ units[1].kill # units[2].kill
  /\ kills["Dock"] = 1
  /\ signals = 1

\* What a run reported: per domain applied, in order, its changed flag.
Reported(q) == [i \in 1..Len(q) |-> [u |-> q[i].u, d |-> q[i].d, changed |-> q[i].changed]]

\* In a dry run nothing has been touched.
DryRunFrame ==
  dry_run =>
    /\ fs = start.fs
    /\ dirs = start.dirs
    /\ writes = <<>>
    /\ copies = <<>>
    /\ \A n \in ProcNames : kills[n] = 0
    /\ signals = 0

\* A real run has exited that started from the state a completed dry run
\* started from, with no failure of the environment in either.
RealAfterDry ==
  /\ run = 2
  /\ pc = "done"
  /\ first.pc = "done"
  /\ first.dry_run
  /\ faults = 0

\* C11: dry-run leaves the system unchanged.  In a dry run no store is
\* written, no directory or backup file is created, no process is restarted
\* and cfprefsd is not signalled; and the changed flag the dry run reported
\* for each domain is the one the real run reports from the same initial
\* state.
C11_DryRun ==
  /\ DryRunFrame
  /\ RealAfterDry => Reported(flags) = Reported(first.flags)

\* A dry run that reported a change has exited.
DryRunReportedChange ==
  /\ dry_run
  /\ pc = "done"
  /\ ChangedFlags # {}

\* The write of the domain at hand failed the way C12 names: the elevated
\* mechanism errored, on its own or as the retry after a PermissionError.
WriteFailed == w.outcome \in {"sudo_fails", "denied_sudo_fails"}

\* C12: write-failure isolation.  When the write for one domain fails (the
\* elevated retry after a permissions error fails, or the elevated
\* mechanism errors), the elevated write was attempted at most once, only
\* that domain's change is abandoned and the run goes on with the next
\* domain: it is not ended by the failure.
C12_WriteFailureIsolation ==
  WriteFailed =>
    /\ ElevatedAttempts(w.use_sudo, w.outcome) <= 1
    /\ fs[w.path] = w.pre
    /\ pc # "crashed"

(***************************************************************************)
(* Claims about get_plist_path (checked under SpecLocate)                  *)
(***************************************************************************)
\* The host-scoped store of a name.
ByHostPath(name) ==
  [dir |-> Home \o "Library/Preferences/ByHost/",
   name |-> name \o "." \o HARDWARE_UUID \o ".plist"]

\* The store of a name in the user's preferences directory.
StandardPath(name) == [dir |-> Home \o "Library/Preferences/", name |-> name \o ".plist"]

\* The identifier taken as the store path, as it is or with the store
\* suffix added when it lacks it.
UsedDirectly(domain, path) ==
  /\ path.dir = domain.dir
  /\ \/ path.name = domain.stem \o domain.suffix
     \/ domain.suffix # ".plist" /\ path.name = domain.stem \o domain.suffix \o ".plist"

\* C13: store locator priority.  (1) An absolute path or an identifier
\* ending in .plist is used directly; (2) a global-domain alias yields the
\* global store, its ByHost variant when current_host; (3) otherwise, when
\* the sandboxed-container store of the identifier exists, its path is
\* returned, whether or not current_host is set; (4) otherwise the standard
\* path, its ByHost variant when current_host.
C13_LocatorPriority ==
  g_done =>
    LET domain == g_args.domain
        host == g_args.current_host
    IN IF domain.abs \/ domain.suffix = ".plist" THEN UsedDirectly(domain, g_path)
       ELSE IF IsGlobal(domain) THEN
         g_path = IF host THEN ByHostPath(".GlobalPreferences")
                  ELSE StandardPath(".GlobalPreferences")
       ELSE IF g_args.sandboxed THEN g_path = SandboxedPath(domain)
       ELSE g_path = IF host THEN ByHostPath(Text(domain)) ELSE StandardPath(Text(domain))

\* Rule (3) with current_host set, on its own.
SandboxedWhenHostScoped ==
  (g_done /\ g_args.current_host /\ g_args.sandboxed
     /\ ~g_args.domain.abs /\ g_args.domain.suffix # ".plist" /\ ~IsGlobal(g_args.domain)) =>
    g_path = SandboxedPath(g_args.domain)

\* Rules (2) and (4) and, without current_host, rule (3).
LocatorRulesKept ==
  (g_done /\ ~g_args.domain.abs /\ g_args.domain.suffix # ".plist"
     /\ ~(g_args.current_host /\ g_args.sandboxed /\ ~IsGlobal(g_args.domain))) =>
    C13_LocatorPriority

(***************************************************************************)
(* Properties of cleanup_backups (checked under Spec)                      *)
(***************************************************************************)
\* A removal that did not delete its file.
RemovalFailed(r) == r.outcome \in {"denied_sudo_fails", "fails"}

\* C14: cleanup is best-effort and independent per backup.  The removals
\* attempted are the paths of the backup list, in order, one attempt each;
\* a removal that hit a permissions error was retried exactly once through
\* sudo and no other removal was; a failed removal leaves its file and the
\* next paths are still attempted; no run is ended by cleanup; and a run
\* that has exited has attempted every path of its list, whether or not it
\* changed anything.
C14_CleanupBestEffort ==
  /\ pc \in {"cleanup", "done"} =>
       /\ Len(removals) = bi - 1
       /\ Len(removals) <= Len(all_backups)
       /\ \A i \in 1..Len(removals) :
            /\ removals[i].path = all_backups[i]
            /\ removals[i].elevated =
                 IF removals[i].outcome \in {"denied_sudo_ok", "denied_sudo_fails"}
                 THEN 1 ELSE 0
  /\ pc = "done" => Len(removals) = Len(all_backups)
  /\ pc \notin {"cleanup", "done"} => removals = <<>>

\* C14: a run has exited whose first removal failed and whose second
\* removal deleted its backup.
C14_Witness ==
  /\ pc = "done"
  /\ Len(removals) = 2
  /\ RemovalFailed(removals[1])
  /\ removals[2].outcome = "ok"
  /\ ~fs[removals[2].path].exists

\* A run that changed nothing has exited through cleanup_backups.
CleanupWithoutChange ==
  /\ pc = "done"
  /\ ChangedFlags = {}
  /\ flags # <<>>
  /\ all_backups = <<>>

(***************************************************************************)
(* C15 (checked under SpecMerge)                                           *)
(***************************************************************************)
\* C15: desired sequence items are never dropped.  For any old value and
\* any new sequence, every element of new other than the marker "..." is
\* value-equal to some element of merge_values(old, new); so also when new
\* has no marker and old already holds all of its elements.
C15_ItemsNeverDropped ==
  (m_done /\ IsList(m_new)) =>
    \A i \in 1..Len(m_new.v) :
      ~IsMarker(m_new.v[i]) =>
        \E j \in 1..Len(m_res.v.v) : PyEq(m_res.v.v[j], m_new.v[i])

\* The case C15 names: no marker in new, and every element of new in old.
ItemsInOldKept ==
  (/\ m_done /\ IsList(m_new) /\ IsList(m_old)
   /\ \A i \in 1..Len(m_new.v) :
        /\ ~IsMarker(m_new.v[i])
        /\ \E j \in 1..Len(m_old.v) : PyEq(m_old.v[j], m_new.v[i])) =>
    \A i \in 1..Len(m_new.v) :
      \E j \in 1..Len(m_res.v.v) : PyEq(m_res.v.v[j], m_new.v[i])

====
